---- MODULE Spec2Model ----
(***************************************************************************)
(* Model of feature_level_report (src/src/main.rs).                        *)
(*                                                                         *)
(* count_aligned_bases walks the operations of a CIGAR string, keeping a   *)
(* cursor in query space and one in target space, and classifies the       *)
(* feature's bases.  main reads one record per line, rejects inconsistent  *)
(* records with a warning and prints one row per accepted record.          *)
(*                                                                         *)
(* Text is a sequence of one-character strings; the token "cg:Z:" stands   *)
(* for the tag that precedes the CIGAR in the input field.                 *)
(*                                                                         *)
(* Coordinates and run lengths are i64 in the source.  The instances       *)
(* checked here keep every sum and difference of the walk far inside the   *)
(* i64 range, so the arithmetic is that of the integers; records whose     *)
(* run lengths make a cursor leave the i64 range (a panic or a wrapped     *)
(* value, depending on the build) are outside this model.                  *)
(***************************************************************************)
EXTENDS Integers, Sequences, FiniteSets, TLC

\* Bounds of the checked instances.
MaxPos == 3
MaxLen == 2
MaxOps == 2
MaxLines == 2

max(a, b) == IF a >= b THEN a ELSE b
min(a, b) == IF a <= b THEN a ELSE b

(***************************************************************************)
(* Text <-> integer conversions.                                           *)
(***************************************************************************)
Digits == <<"0", "1", "2", "3", "4", "5", "6", "7", "8", "9">>

IsDigit(c) == \E d \in 1..10 : Digits[d] = c

DigitValue(c) == (CHOOSE d \in 1..10 : Digits[d] = c) - 1

\* value of the decimal digits s[from..to]
RECURSIVE parse_digits(_, _, _)
parse_digits(s, from, to) ==
    IF to < from THEN 0
    ELSE 10 * parse_digits(s, from, to - 1) + DigitValue(s[to])

AllDigits(s, from, to) == \A i \in from..to : IsDigit(s[i])

\* str::parse::<i64>: an optional sign and at least one digit, nothing else
parse_ok(s) ==
    IF Len(s) >= 1 /\ s[1] \in {"+", "-"}
    THEN Len(s) >= 2 /\ AllDigits(s, 2, Len(s))
    ELSE Len(s) >= 1 /\ AllDigits(s, 1, Len(s))

parse_i64(s) ==
    IF s[1] = "-" THEN 0 - parse_digits(s, 2, Len(s))
    ELSE IF s[1] = "+" THEN parse_digits(s, 2, Len(s))
    ELSE parse_digits(s, 1, Len(s))

\* Display of an integer, as println! formats it
RECURSIVE fmt_nat(_)
fmt_nat(n) ==
    IF n < 10 THEN <<Digits[n + 1]>>
    ELSE Append(fmt_nat(n \div 10), Digits[(n % 10) + 1])

fmt_i64(n) == IF n < 0 THEN <<"-">> \o fmt_nat(0 - n) ELSE fmt_nat(n)

(***************************************************************************)
(* The CIGAR operation stream: Regex (\d+)([MIDNSHP=X]), captures_iter.    *)
(***************************************************************************)
OpChars == {"M", "I", "D", "N", "S", "H", "P", "=", "X"}

\* index just after the greedy digit run that starts at i
RECURSIVE digit_run_end(_, _)
digit_run_end(s, i) ==
    IF i <= Len(s) /\ IsDigit(s[i]) THEN digit_run_end(s, i + 1) ELSE i

\* leftmost match at or after position i: <<first digit, operation index>>,
\* or <<>> when the rest of the text holds no match
RECURSIVE find_at(_, _)
find_at(s, i) ==
    IF i > Len(s) THEN <<>>
    ELSE IF IsDigit(s[i])
         THEN LET e == digit_run_end(s, i)
              IN  IF e <= Len(s) /\ s[e] \in OpChars THEN <<i, e>>
                  ELSE find_at(s, e)
         ELSE find_at(s, i + 1)

\* all captures of the text, in order: <<length, op>> pairs
RECURSIVE captures_from(_, _)
captures_from(s, i) ==
    LET m == find_at(s, i)
    IN  IF m = <<>> THEN <<>>
        ELSE <<<<parse_digits(s, m[1], m[2] - 1), s[m[2]]>>>>
                 \o captures_from(s, m[2] + 1)

captures_iter(s) == captures_from(s, 1)

(***************************************************************************)
(* count_aligned_bases.                                                    *)
(*   a : the arguments (record), l : the loop's local variables (record)   *)
(***************************************************************************)
query_rev(a) == a.query_strand = "-"

\* the locals before the loop
start_locals(a) ==
    [ aligned_bases               |-> 0,
      not_aligned_bases_in_query  |-> 0,
      not_aligned_bases_in_target |-> 0,
      indels_in_query             |-> 0,
      indels_in_target            |-> 0,
      query_pos  |-> IF query_rev(a) THEN a.query_end ELSE a.query_start,
      target_pos |-> a.target_start,
      next       |-> 1 ]

\* variant: the reverse strand handled like the forward strand
overlap_query_forward_only(a, l, length) ==
    max(0, min(l.query_pos + length, a.feature_in_query_end)
             - max(l.query_pos, a.feature_in_query_start))

overlap_query(a, l, length) ==
    IF query_rev(a)
    THEN max(0, min(l.query_pos, a.feature_in_query_end)
                  - max(l.query_pos - length, a.feature_in_query_start))
    ELSE max(0, min(l.query_pos + length, a.feature_in_query_end)
                  - max(l.query_pos, a.feature_in_query_start))

\* variant: the difference is not clamped at 0
overlap_target_unclamped(a, l, length) ==
    min(l.target_pos + length, a.feature_in_target_end)
        - max(l.target_pos, a.feature_in_target_start)

overlap_target(a, l, length) ==
    max(0, min(l.target_pos + length, a.feature_in_target_end)
             - max(l.target_pos, a.feature_in_target_start))

advance_query(a, l, length) ==
    IF query_rev(a) THEN l.query_pos - length ELSE l.query_pos + length

\* variant: the target overlap is not taken into account
match_arm_query_only(a, l, length) ==
    [l EXCEPT !.aligned_bases = @ + overlap_query(a, l, length),
              !.query_pos  = advance_query(a, l, length),
              !.target_pos = @ + length]

\* arm "M" | "=" | "X"
match_arm(a, l, length) ==
    [l EXCEPT !.aligned_bases = @ + min(overlap_query(a, l, length),
                                        overlap_target(a, l, length)),
              !.query_pos  = advance_query(a, l, length),
              !.target_pos = @ + length]

\* variant: the bucket is chosen by the overlap, not by the run length
deletion_arm_by_overlap(a, l, length) ==
    IF overlap_target(a, l, length) <= a.max_indel_size
    THEN [l EXCEPT !.indels_in_target = @ + overlap_target(a, l, length),
                   !.target_pos = @ + length]
    ELSE [l EXCEPT !.not_aligned_bases_in_target = @ + overlap_target(a, l, length),
                   !.target_pos = @ + length]

\* arm "D"
deletion_arm(a, l, length) ==
    IF length <= a.max_indel_size
    THEN [l EXCEPT !.indels_in_target = @ + overlap_target(a, l, length),
                   !.target_pos = @ + length]
    ELSE [l EXCEPT !.not_aligned_bases_in_target = @ + overlap_target(a, l, length),
                   !.target_pos = @ + length]

\* variant: the query cursor is not advanced
insertion_arm_no_advance(a, l, length) ==
    IF length <= a.max_indel_size
    THEN [l EXCEPT !.indels_in_query = @ + overlap_query(a, l, length)]
    ELSE [l EXCEPT !.not_aligned_bases_in_query = @ + overlap_query(a, l, length)]

\* variant: the test on the run length is reversed
insertion_arm_reversed_test(a, l, length) ==
    IF length >= a.max_indel_size
    THEN [l EXCEPT !.indels_in_query = @ + overlap_query(a, l, length),
                   !.query_pos = advance_query(a, l, length)]
    ELSE [l EXCEPT !.not_aligned_bases_in_query = @ + overlap_query(a, l, length),
                   !.query_pos = advance_query(a, l, length)]

\* arm "I"
insertion_arm(a, l, length) ==
    IF length <= a.max_indel_size
    THEN [l EXCEPT !.indels_in_query = @ + overlap_query(a, l, length),
                   !.query_pos = advance_query(a, l, length)]
    ELSE [l EXCEPT !.not_aligned_bases_in_query = @ + overlap_query(a, l, length),
                   !.query_pos = advance_query(a, l, length)]

\* variant: a clip consumes query bases
other_arm_soft_clip(a, l, length) ==
    [l EXCEPT !.query_pos = advance_query(a, l, length)]

\* arm _
other_arm(a, l, length) == l

\* the match statement on the operation
apply_op(a, l, length, op) ==
    IF op \in {"M", "=", "X"} THEN match_arm(a, l, length)
    ELSE IF op = "D" THEN deletion_arm(a, l, length)
    ELSE IF op = "I" THEN insertion_arm(a, l, length)
    ELSE other_arm(a, l, length)

\* the test that breaks out of the loop
passed_feature(a, l) ==
    /\ \/ query_rev(a) /\ l.query_pos <= a.feature_in_query_start
       \/ ~query_rev(a) /\ l.query_pos >= a.feature_in_query_end
    /\ l.target_pos >= a.feature_in_target_end

\* variant: ignored_in_target derived from the query-side counters
return_tuple_query_counters(a, l) ==
    << l.aligned_bases,
       l.not_aligned_bases_in_query,
       l.not_aligned_bases_in_target,
       l.indels_in_query,
       l.indels_in_target,
       (a.feature_in_query_end - a.feature_in_query_start)
           - l.aligned_bases - l.indels_in_query - l.not_aligned_bases_in_query,
       (a.feature_in_target_end - a.feature_in_target_start)
           - l.aligned_bases - l.indels_in_query - l.not_aligned_bases_in_query >>

\* the returned tuple
return_tuple(a, l) ==
    << l.aligned_bases,
       l.not_aligned_bases_in_query,
       l.not_aligned_bases_in_target,
       l.indels_in_query,
       l.indels_in_target,
       (a.feature_in_query_end - a.feature_in_query_start)
           - l.aligned_bases - l.indels_in_query - l.not_aligned_bases_in_query,
       (a.feature_in_target_end - a.feature_in_target_start)
           - l.aligned_bases - l.indels_in_target - l.not_aligned_bases_in_target >>

\* the locals when the loop is left, entered with locals l
RECURSIVE loop_from(_, _)
loop_from(a, l) ==
    LET m == find_at(a.cigar, l.next)
    IN  IF m = <<>> THEN l
        ELSE LET length == parse_digits(a.cigar, m[1], m[2] - 1)
                 l2 == [apply_op(a, l, length, a.cigar[m[2]])
                            EXCEPT !.next = m[2] + 1]
             IN  IF passed_feature(a, l2) THEN l2
                 ELSE loop_from(a, l2)

count_aligned_bases(a) == return_tuple(a, loop_from(a, start_locals(a)))

(***************************************************************************)
(* State.                                                                  *)
(*   args, loc, pc, result : one call of count_aligned_bases               *)
(*   input_file, input, stdout, stderr, mpc : one run of main              *)
(***************************************************************************)
VARIABLES args, loc, pc, result, input_file, input, stdout, stderr, mpc

vars == <<args, loc, pc, result, input_file, input, stdout, stderr, mpc>>
call_vars == <<args, loc, pc, result>>
main_vars == <<input_file, input, stdout, stderr, mpc>>

(***************************************************************************)
(* The inputs of the checked calls.                                        *)
(***************************************************************************)
Positions == 0..MaxPos
Lengths == {1, MaxLen}
SampleOps == {"M", "I", "D", "S"}

\* the text of one operation
op_text(length, op) == fmt_i64(length) \o <<op>>

RECURSIVE CigarsOfLen(_)
CigarsOfLen(n) ==
    IF n = 0 THEN {<<>>}
    ELSE {c \o op_text(length, op) :
              c \in CigarsOfLen(n - 1), length \in Lengths, op \in SampleOps}

Cigars == UNION {CigarsOfLen(n) : n \in 0..MaxOps}

\* half-open intervals [s, e) with s <= e
Intervals == {i \in Positions \X Positions : i[1] <= i[2]}

MaxIndelSizes == {0, MaxLen - 1}

arguments(q, strand, ts, c, fq, ft, m) ==
    [ query_start  |-> q[1], query_end |-> q[2], query_strand |-> strand,
      target_start |-> ts, cigar |-> c,
      feature_in_query_start  |-> fq[1], feature_in_query_end  |-> fq[2],
      feature_in_target_start |-> ft[1], feature_in_target_end |-> ft[2],
      max_indel_size |-> m ]

NoResult == <<>>

Init ==
    /\ \E strand \in {"+", "-"}, c \in Cigars, fq \in Intervals,
          ft \in Intervals, m \in MaxIndelSizes :
           args = arguments(<<1, MaxPos - 1>>, strand, 1, c, fq, ft, m)
    /\ loc = start_locals(args)
    /\ pc = "loop"
    /\ result = NoResult
    /\ input_file = "" /\ input = <<>> /\ stdout = <<>> /\ stderr = <<>>
    /\ mpc = "idle"

\* the capture the iterator yields next, <<>> when the stream is exhausted
next_capture == find_at(args.cigar, loc.next)
length_of(m) == parse_digits(args.cigar, m[1], m[2] - 1)
op_of(m) == args.cigar[m[2]]

\* one iteration of the loop on an operation of the kinds in ops
Iteration(ops) ==
    /\ pc = "loop"
    /\ next_capture # <<>>
    /\ op_of(next_capture) \in ops
    /\ LET m  == next_capture
           l2 == [apply_op(args, loc, length_of(m), op_of(m))
                      EXCEPT !.next = m[2] + 1]
       IN  /\ loc' = l2
           /\ pc' = IF passed_feature(args, l2) THEN "break" ELSE "loop"
    /\ UNCHANGED <<args, result>>
    /\ UNCHANGED main_vars

Match == Iteration({"M", "=", "X"})
Deletion == Iteration({"D"})
Insertion == Iteration({"I"})
Other == Iteration({"N", "S", "H", "P"})

\* the loop is left (break, or no capture is left) and the tuple is returned
Return ==
    /\ \/ pc = "break"
       \/ pc = "loop" /\ next_capture = <<>>
    /\ result' = return_tuple(args, loc)
    /\ pc' = "done"
    /\ UNCHANGED <<args, loc>>
    /\ UNCHANGED main_vars

Next == Match \/ Deletion \/ Insertion \/ Other \/ Return

Spec == Init /\ [][Next]_vars

(***************************************************************************)
(* main: one record per input line.  A line is the record of the fields    *)
(* main picks out of line.split('\t'); numbers and strands are text.       *)
(***************************************************************************)
Header ==
    << "feature.name", "query", "query.feature.start", "query.feature.end",
       "query.strand", "target", "target.feature.start", "target.feature.end",
       "aligned.bp", "not.aligned.in.query.bp", "not.aligned.in.target.bp",
       "indels.in.query.bp", "indels.in.target.bp", "ignored.in.query.bp",
       "ignored.in.target.bp" >>

\* parts[12].split("cg:Z:").last(): the text after the last tag
RECURSIVE after_tag(_, _)
after_tag(s, i) ==
    IF i = 0 THEN s
    ELSE IF s[i] = "cg:Z:" THEN SubSeq(s, i + 1, Len(s))
    ELSE after_tag(s, i - 1)

cigar_of(line) == after_tag(line.cigar, Len(line.cigar))

IntFields ==
    { "query_start", "query_end", "target_start", "target_end",
      "feature_in_query_start", "feature_in_query_end",
      "feature_in_target_start", "feature_in_target_end" }

\* every .parse::<i64>().expect(..) of the iteration succeeds
fields_parse(line) == \A f \in IntFields : parse_ok(line[f])

\* variant: the feature names are not compared
names_mismatch_no_feature(line) ==
    \/ line.query_name # line.query_name_2
    \/ line.target_name # line.target_name_2

names_mismatch(line) ==
    \/ line.query_name # line.query_name_2
    \/ line.target_name # line.target_name_2
    \/ line.feature_in_query_name # line.feature_in_target_name

strand_mismatch(line) ==
    /\ line.feature_in_query_strand # line.feature_in_target_strand
    /\ line.query_strand = <<"+">>

warning_of(kind, line) ==
    << kind, line.feature_in_query_name, line.query_name,
       fmt_i64(parse_i64(line.feature_in_query_start)),
       fmt_i64(parse_i64(line.feature_in_query_end)),
       line.query_strand, line.target_name,
       fmt_i64(parse_i64(line.feature_in_target_start)),
       fmt_i64(parse_i64(line.feature_in_target_end)) >>

\* the arguments main passes to count_aligned_bases
call_arguments(line, m) ==
    [ query_start  |-> parse_i64(line.query_start),
      query_end    |-> parse_i64(line.query_end),
      query_strand |-> line.query_strand[1],
      target_start |-> parse_i64(line.target_start),
      cigar |-> cigar_of(line),
      feature_in_query_start  |-> parse_i64(line.feature_in_query_start),
      feature_in_query_end    |-> parse_i64(line.feature_in_query_end),
      feature_in_target_start |-> parse_i64(line.feature_in_target_start),
      feature_in_target_end   |-> parse_i64(line.feature_in_target_end),
      max_indel_size |-> m ]

\* the row println! writes for an accepted record
row_of(line, m) ==
    LET r == count_aligned_bases(call_arguments(line, m))
    IN  << line.feature_in_query_name, line.query_name,
           fmt_i64(parse_i64(line.feature_in_query_start)),
           fmt_i64(parse_i64(line.feature_in_query_end)),
           line.query_strand, line.target_name,
           fmt_i64(parse_i64(line.feature_in_target_start)),
           fmt_i64(parse_i64(line.feature_in_target_end)),
           fmt_i64(r[1]), fmt_i64(r[2]), fmt_i64(r[3]), fmt_i64(r[4]),
           fmt_i64(r[5]), fmt_i64(r[6]), fmt_i64(r[7]) >>

\* the lines the checked runs read
BaseLine ==
    [ query_name |-> "q", query_start |-> <<"0">>, query_end |-> <<"3">>,
      query_strand |-> <<"+">>,
      target_name |-> "t", target_start |-> <<"0">>, target_end |-> <<"3">>,
      cigar |-> <<"cg:Z:", "3", "M">>,
      query_name_2 |-> "q",
      feature_in_query_start |-> <<"1">>, feature_in_query_end |-> <<"3">>,
      feature_in_query_name |-> "f", feature_in_query_strand |-> <<"+">>,
      target_name_2 |-> "t",
      feature_in_target_start |-> <<"1">>, feature_in_target_end |-> <<"3">>,
      feature_in_target_name |-> "f", feature_in_target_strand |-> <<"+">> ]

LineSet ==
    { BaseLine,
      [BaseLine EXCEPT !.query_strand = <<"-">>,
                       !.feature_in_target_strand = <<"-">>,
                       !.feature_in_query_start = <<"0", "1">>,
                       !.cigar = <<"cg:Z:", "1", "M", "1", "D", "2", "M">>],
      [BaseLine EXCEPT !.query_end = <<"1", "0">>, !.target_end = <<"1", "0">>,
                       !.cigar = <<"cg:Z:", "1", "0", "M">>,
                       !.feature_in_query_start = <<"2">>,
                       !.feature_in_query_end = <<"6">>,
                       !.feature_in_target_start = <<"2">>,
                       !.feature_in_target_end = <<"6">>],
      [BaseLine EXCEPT !.query_name_2 = "q2"],
      [BaseLine EXCEPT !.target_name_2 = "t2"],
      [BaseLine EXCEPT !.feature_in_target_name = "g"],
      [BaseLine EXCEPT !.feature_in_target_strand = <<"-">>],
      [BaseLine EXCEPT !.cigar = <<"cg:Z:">>],
      [BaseLine EXCEPT !.cigar = <<"*">>],
      [BaseLine EXCEPT !.cigar = <<"cg:Z:", "M", "2", "Q", "3">>],
      [BaseLine EXCEPT !.target_start = <<"x">>],
      [BaseLine EXCEPT !.query_name_2 = "q2", !.feature_in_query_end = <<>>],
      [BaseLine EXCEPT !.query_strand = <<>>] }

\* --max-indel-size of the checked runs
MainMaxIndelSize == MaxLen

InitMain ==
    /\ input_file \in {"", "in.paf"}
    /\ input = <<>>
    /\ stdout = <<>>
    /\ stderr = <<>>
    /\ mpc = "start"
    /\ args = <<>> /\ loc = <<>> /\ pc = "idle" /\ result = NoResult

\* println! of the header; the loop is entered only with an input file
PrintHeader ==
    /\ mpc = "start"
    /\ stdout' = Append(stdout, Header)
    /\ mpc' = IF input_file = "" THEN "exit" ELSE "lines"
    /\ UNCHANGED <<input_file, input, stderr>>
    /\ UNCHANGED call_vars

\* the loop body on the next line of the file
ReadLine(line) ==
    /\ mpc = "lines"
    /\ Len(input) < MaxLines
    /\ input' = Append(input, line)

\* an expect() or unwrap() of the iteration panics
LinePanics ==
    \E line \in LineSet :
        /\ ReadLine(line)
        /\ \/ ~fields_parse(line)
           \/ /\ ~names_mismatch(line) /\ ~strand_mismatch(line)
              /\ line.query_strand = <<>>
        /\ mpc' = "panic"
        /\ UNCHANGED <<input_file, stdout, stderr>>
        /\ UNCHANGED call_vars

SkipNames ==
    \E line \in LineSet :
        /\ ReadLine(line)
        /\ fields_parse(line)
        /\ names_mismatch(line)
        /\ stderr' = Append(stderr, warning_of("WARNING: names", line))
        /\ UNCHANGED <<input_file, stdout, mpc>>
        /\ UNCHANGED call_vars

SkipStrand ==
    \E line \in LineSet :
        /\ ReadLine(line)
        /\ fields_parse(line)
        /\ ~names_mismatch(line)
        /\ strand_mismatch(line)
        /\ stderr' = Append(stderr, warning_of("WARNING: strands", line))
        /\ UNCHANGED <<input_file, stdout, mpc>>
        /\ UNCHANGED call_vars

\* variant: a CIGAR without operations is fatal
PrintRowUnlessEmpty ==
    \E line \in LineSet :
        /\ ReadLine(line)
        /\ fields_parse(line)
        /\ ~names_mismatch(line)
        /\ ~strand_mismatch(line)
        /\ line.query_strand # <<>>
        /\ IF captures_iter(cigar_of(line)) = <<>>
           THEN mpc' = "panic" /\ UNCHANGED stdout
           ELSE /\ stdout' = Append(stdout, row_of(line, MainMaxIndelSize))
                /\ UNCHANGED mpc
        /\ UNCHANGED <<input_file, stderr>>
        /\ UNCHANGED call_vars

PrintRow ==
    \E line \in LineSet :
        /\ ReadLine(line)
        /\ fields_parse(line)
        /\ ~names_mismatch(line)
        /\ ~strand_mismatch(line)
        /\ line.query_strand # <<>>
        /\ stdout' = Append(stdout, row_of(line, MainMaxIndelSize))
        /\ UNCHANGED <<input_file, stderr, mpc>>
        /\ UNCHANGED call_vars

\* file.lines() is exhausted: Ok(())
EndOfFile ==
    /\ mpc = "lines"
    /\ mpc' = "exit"
    /\ UNCHANGED <<input_file, input, stdout, stderr>>
    /\ UNCHANGED call_vars

NextMain ==
    PrintHeader \/ LinePanics \/ SkipNames \/ SkipStrand \/ PrintRow \/ EndOfFile

SpecMain == InitMain /\ [][NextMain]_vars

(***************************************************************************)
(* Reference notions for the properties: the span of every run, computed   *)
(* from the run lengths alone, and the feature as a set of positions.      *)
(***************************************************************************)
ConsumesQuery(op) == op \in {"M", "=", "X", "I"}
ConsumesTarget(op) == op \in {"M", "=", "X", "D"}

\* query (target) bases consumed by the captures before capture k
RECURSIVE QueryOffset(_, _)
QueryOffset(cs, k) ==
    IF k <= 1 THEN 0
    ELSE QueryOffset(cs, k - 1)
             + (IF ConsumesQuery(cs[k - 1][2]) THEN cs[k - 1][1] ELSE 0)

RECURSIVE TargetOffset(_, _)
TargetOffset(cs, k) ==
    IF k <= 1 THEN 0
    ELSE TargetOffset(cs, k - 1)
             + (IF ConsumesTarget(cs[k - 1][2]) THEN cs[k - 1][1] ELSE 0)

\* the half-open interval <<lo, hi>> of query positions run k covers
QueryRun(a, cs, k) ==
    LET off == QueryOffset(cs, k)
        len == IF ConsumesQuery(cs[k][2]) THEN cs[k][1] ELSE 0
    IN  IF a.query_strand = "-"
        THEN <<a.query_end - off - len, a.query_end - off>>
        ELSE <<a.query_start + off, a.query_start + off + len>>

TargetRun(a, cs, k) ==
    LET off == TargetOffset(cs, k)
        len == IF ConsumesTarget(cs[k][2]) THEN cs[k][1] ELSE 0
    IN  <<a.target_start + off, a.target_start + off + len>>

PositionsOf(i) == i[1]..(i[2] - 1)
Inside(i, j) == j[1] <= i[1] /\ i[2] <= j[2]

FeatureInQuery(a) == <<a.feature_in_query_start, a.feature_in_query_end>>
FeatureInTarget(a) == <<a.feature_in_target_start, a.feature_in_target_end>>
LengthOf(i) == i[2] - i[1]

\* bases of the interval i that lie in the interval j
Shared(i, j) == Cardinality(PositionsOf(i) \cap PositionsOf(j))

\* the captures the loop has consumed when its iterator stands at next
ConsumedCaptures(a, l) == captures_iter(SubSeq(a.cigar, 1, l.next - 1))

\* the walk stopped with operations left unread
StoppedEarly == pc = "done" /\ find_at(args.cigar, loc.next) # <<>>

WithCigar(a, c) == [a EXCEPT !.cigar = c]

\* the feature lies inside one match run, in the query and in the target
InsideOneMatchRun(a) ==
    LET cs == captures_iter(a.cigar)
    IN  \E k \in 1..Len(cs) :
            /\ cs[k][2] \in {"M", "=", "X"}
            /\ Inside(FeatureInQuery(a), QueryRun(a, cs, k))
            /\ Inside(FeatureInTarget(a), TargetRun(a, cs, k))

\* "10M", query [0,10) forward, target [0,10), feature [2,6) in both spaces
TenMatchScenario ==
    \A m \in MaxIndelSizes :
        count_aligned_bases(
            arguments(<<0, 10>>, "+", 0, <<"1", "0", "M">>, <<2, 6>>, <<2, 6>>, m))
          = <<4, 0, 0, 0, 0, 0, 0>>

\* one run of every match letter that spans the positions, every feature
EveryMatchLetterScenario ==
    \A o \in {"M", "=", "X"}, strand \in {"+", "-"}, fq \in Intervals, ft \in Intervals :
        LET lq == LengthOf(fq)
            lt == LengthOf(ft)
        IN  count_aligned_bases(
                arguments(<<0, MaxPos>>, strand, 0, op_text(MaxPos, o), fq, ft, 0))
              = << min(lq, lt), 0, 0, 0, 0, lq - min(lq, lt), lt - min(lq, lt) >>

\* both cursors are past the feature
CursorsPassed(a, l) ==
    /\ IF a.query_strand = "-" THEN l.query_pos <= a.feature_in_query_start
       ELSE l.query_pos >= a.feature_in_query_end
    /\ l.target_pos >= a.feature_in_target_end

\* the prefixes of the text that end with a whole operation
PrefixEnds(c) == {0} \cup {i \in 1..Len(c) : c[i] \in OpChars}

\* the walk over the first i characters ends with both cursors past the feature
PassedAfter(a, i) ==
    LET p == WithCigar(a, SubSeq(a.cigar, 1, i))
    IN  CursorsPassed(p, loop_from(p, start_locals(p)))

\* "5M3D5M", target [0,13), feature-in-target [4,9), max_indel_size 5,
\* every feature interval of the query [0,10), both strands
FiveThreeFiveScenario ==
    \A strand \in {"+", "-"}, s \in 0..10, e \in 0..10 :
        s <= e =>
            LET r == count_aligned_bases(
                         arguments(<<0, 10>>, strand, 0,
                                   <<"5", "M", "3", "D", "5", "M">>,
                                   <<s, e>>, <<4, 9>>, 5))
            IN  r[5] = 3 /\ r[3] = 0

\* the overlaps of the runs cs[1..k] of kind op whose length is at most
\* max_indel_size (small) or more (not small), summed
RECURSIVE OverlapSum(_, _, _, _, _)
OverlapSum(a, cs, k, op, small) ==
    IF k = 0 THEN 0
    ELSE OverlapSum(a, cs, k - 1, op, small)
           + (IF cs[k][2] = op /\ ((cs[k][1] <= a.max_indel_size) <=> small)
              THEN IF op = "D"
                   THEN Shared(TargetRun(a, cs, k), FeatureInTarget(a))
                   ELSE Shared(QueryRun(a, cs, k), FeatureInQuery(a))
              ELSE 0)

Flipped(a) ==
    [a EXCEPT !.query_strand = IF a.query_strand = "-" THEN "+" ELSE "-"]

\* the feature's query interval is symmetric around the query midpoint
Symmetric(a) ==
    a.feature_in_query_start + a.feature_in_query_end
        = a.query_start + a.query_end

\* a feature whose end precedes its start, under "3M"
InvertedFeatureScenario ==
    count_aligned_bases(
        arguments(<<0, 3>>, "+", 0, <<"3", "M">>, <<2, 1>>, <<0, 3>>, 0))
      = <<0, 0, 0, 0, 0, -1, 3>>

\* the feature positions the runs of kind op cover, in the query or the target
CoveredBy(a, cs, op, query_side) ==
    UNION { IF query_side
            THEN PositionsOf(QueryRun(a, cs, k)) \cap PositionsOf(FeatureInQuery(a))
            ELSE PositionsOf(TargetRun(a, cs, k)) \cap PositionsOf(FeatureInTarget(a)) :
            k \in {j \in 1..Len(cs) : cs[j][2] = op} }

RECURSIVE TextOf(_)
TextOf(cs) ==
    IF cs = <<>> THEN <<>>
    ELSE op_text(cs[1][1], cs[1][2]) \o TextOf(Tail(cs))

\* the text without its operations of kind other
WithoutOther(c) ==
    TextOf(SelectSeq(captures_iter(c), LAMBDA cap : cap[2] \notin {"N", "S", "H", "P"}))

\* every letter of kind other, put before, between and after three runs
EveryOtherLetterScenario ==
    \A o \in {"N", "S", "H", "P"}, strand \in {"+", "-"}, fq \in Intervals, ft \in Intervals :
        LET a == arguments(<<1, MaxPos - 1>>, strand, 1, <<>>, fq, ft, 0)
        IN  count_aligned_bases(
                WithCigar(a, <<"1", o, "1", "M", "2", o, "1", "I", "1", "D", "1", o>>))
              = count_aligned_bases(WithCigar(a, <<"1", "M", "1", "I", "1", "D">>))

(***************************************************************************)
(* C1.  For every record the returned counters account for the whole       *)
(* feature in both spaces: aligned + not aligned + indels + ignored is the *)
(* feature's length in the query, and likewise in the target.              *)
(***************************************************************************)
AccountingIdentity ==
    pc = "done" =>
        /\ result[1] + result[2] + result[4] + result[6]
               = args.feature_in_query_end - args.feature_in_query_start
        /\ result[1] + result[3] + result[5] + result[7]
               = args.feature_in_target_end - args.feature_in_target_start

\* a reverse-strand walk that stopped early, with aligned and ignored bases
AccountingWitness ==
    /\ StoppedEarly
    /\ args.query_strand = "-"
    /\ result[1] > 0 /\ result[6] > 0 /\ result[7] > 0

(***************************************************************************)
(* C2, as claimed.  A feature that lies inside one match run in both       *)
(* spaces gives aligned_bases = the feature length and every other counter *)
(* 0.  (Refuted when the feature's two lengths differ.)                    *)
(***************************************************************************)
SingleRunAllAligned ==
    (pc = "done" /\ InsideOneMatchRun(args)) =>
        result = << LengthOf(FeatureInQuery(args)), 0, 0, 0, 0, 0, 0 >>

(***************************************************************************)
(* C2, amended.  Such a feature gives aligned_bases = the smaller of its   *)
(* query length and its target length, no not-aligned and no indel bases,  *)
(* and each ignored counter = that side's length minus aligned_bases; so   *)
(* all six are 0 exactly when the two lengths are equal, as for "10M",     *)
(* query [0,10) forward, target [0,10), feature [2,6) in both spaces.      *)
(***************************************************************************)
SingleRunAlignsShorterLength ==
    /\ TenMatchScenario
    /\ EveryMatchLetterScenario
    /\ (pc = "done" /\ InsideOneMatchRun(args)) =>
           LET lq == LengthOf(FeatureInQuery(args))
               lt == LengthOf(FeatureInTarget(args))
           IN  result = << min(lq, lt), 0, 0, 0, 0, lq - min(lq, lt), lt - min(lq, lt) >>

\* a reverse-strand record whose feature is longer in the query
SingleRunWitness ==
    /\ pc = "done" /\ InsideOneMatchRun(args)
    /\ args.query_strand = "-"
    /\ LengthOf(FeatureInQuery(args)) = 2
    /\ LengthOf(FeatureInTarget(args)) = 1
    /\ result[1] = 1 /\ result[6] = 1

(***************************************************************************)
(* C3.  Early termination preserves the result: whenever the walk over a   *)
(* prefix of the CIGAR text ends with both cursors past the feature, the   *)
(* walk over the whole text returns what the walk over the prefix returns. *)
(***************************************************************************)
EarlyStopPreservesResult ==
    pc = "done" =>
        \A i \in PrefixEnds(args.cigar) :
            PassedAfter(args, i) =>
                count_aligned_bases(WithCigar(args, SubSeq(args.cigar, 1, i))) = result

\* the cursors passed the feature after a proper prefix that aligned bases
EarlyStopWitness ==
    /\ StoppedEarly
    /\ result[1] > 0
    /\ \E i \in PrefixEnds(args.cigar) :
           /\ 0 < i /\ i < Len(args.cigar)
           /\ PassedAfter(args, i)

(***************************************************************************)
(* C4.  When the walk returns, indels_in_target is the sum of the          *)
(* overlaps with the feature's target interval of the consumed deletions   *)
(* whose whole run is at most max_indel_size long, and                     *)
(* not_aligned_in_target the sum for the longer ones; the query-side       *)
(* counters are the same sums over the consumed insertions.  "5M3D5M",     *)
(* target [0,13), feature-in-target [4,9), max_indel_size 5 gives          *)
(* indels_in_target = 3 and not_aligned_in_target = 0 for every            *)
(* query-side feature interval.                                            *)
(***************************************************************************)
BucketChosenByRunLength ==
    /\ FiveThreeFiveScenario
    /\ LET cs == ConsumedCaptures(args, loc)
           n  == Len(cs)
       IN  pc = "done" =>
             /\ result[5] = OverlapSum(args, cs, n, "D", TRUE)
             /\ result[3] = OverlapSum(args, cs, n, "D", FALSE)
             /\ result[4] = OverlapSum(args, cs, n, "I", TRUE)
             /\ result[2] = OverlapSum(args, cs, n, "I", FALSE)

\* a deletion of 2 > max_indel_size = 1 whose overlap with the feature is 1
BucketWitness ==
    /\ args.max_indel_size = 1
    /\ args.cigar = <<"2", "D">>
    /\ pc = "done"
    /\ result[3] = 1
    /\ result[5] = 0

(***************************************************************************)
(* C5.  Strand symmetry: when the feature's query interval is symmetric    *)
(* around the midpoint of the alignment's query interval, the record with  *)
(* the opposite query strand has the same aligned_bases.                   *)
(***************************************************************************)
StrandSymmetry ==
    (pc = "done" /\ Symmetric(args)) =>
        count_aligned_bases(Flipped(args))[1] = result[1]

\* a symmetric feature with aligned bases and an insertion, reverse strand
StrandSymmetryWitness ==
    /\ pc = "done"
    /\ Symmetric(args)
    /\ args.query_strand = "-"
    /\ result[1] > 0
    /\ result[4] > 0

ZeroThresholdNoIndels ==
    (pc = "done" /\ args.max_indel_size = 0) =>
        LET cs == ConsumedCaptures(args, loc)
        IN  /\ result[4] = 0
            /\ result[5] = 0
            /\ result[2] = Cardinality(CoveredBy(args, cs, "I", TRUE))
            /\ result[3] = Cardinality(CoveredBy(args, cs, "D", FALSE))

\* an insertion and a deletion that both overlap the feature
ZeroThresholdWitness ==
    /\ pc = "done"
    /\ args.max_indel_size = 0
    /\ result[2] > 0
    /\ result[3] > 0

(***************************************************************************)
(* C10.  Operations of kind other (N, S, H, P) change nothing: the text    *)
(* with all of them removed gives the same seven counters.                 *)
(***************************************************************************)
OtherOperationsAreNeutral ==
    /\ EveryOtherLetterScenario
    /\ pc = "done" =>
           count_aligned_bases(WithCigar(args, WithoutOther(args.cigar))) = result

\* the walk stopped right after a leading soft clip, a match still unread
OtherWitness ==
    /\ StoppedEarly
    /\ Len(args.cigar) = 4
    /\ args.cigar[2] = "S"
    /\ args.cigar[4] = "M"
    /\ loc.next = 3

(***************************************************************************)
(* Reference notions for the properties of main.                           *)
(***************************************************************************)
\* every number of the line is a number and the strand is not empty
StructurallyValid(line) ==
    /\ \A f \in IntFields : parse_ok(line[f])
    /\ line.query_strand # <<>>

\* the two projections disagree
Inconsistent(line) ==
    \/ line.query_name # line.query_name_2
    \/ line.target_name # line.target_name_2
    \/ line.feature_in_query_name # line.feature_in_target_name
    \/ /\ line.feature_in_query_strand # line.feature_in_target_strand
       /\ line.query_strand = <<"+">>

Accepted(lines) == SelectSeq(lines, LAMBDA line : ~Inconsistent(line))
Rejected(lines) == SelectSeq(lines, LAMBDA line : Inconsistent(line))

RowsOf(lines) == [i \in 1..Len(lines) |-> row_of(lines[i], MainMaxIndelSize)]

AllValid(lines) == \A i \in 1..Len(lines) : StructurallyValid(lines[i])

NoValidOperations(line) == captures_iter(cigar_of(line)) = <<>>

\* line i is handed to count_aligned_bases
ReachesTheWalk(lines, i) ==
    /\ AllValid(SubSeq(lines, 1, i))
    /\ ~Inconsistent(lines[i])

\* the row of a record whose walk consumed nothing
EmptyWalkRow(line) ==
    LET fqs == parse_i64(line.feature_in_query_start)
        fqe == parse_i64(line.feature_in_query_end)
        fts == parse_i64(line.feature_in_target_start)
        fte == parse_i64(line.feature_in_target_end)
    IN  << line.feature_in_query_name, line.query_name,
           fmt_i64(fqs), fmt_i64(fqe), line.query_strand, line.target_name,
           fmt_i64(fts), fmt_i64(fte),
           <<"0">>, <<"0">>, <<"0">>, <<"0">>, <<"0">>,
           fmt_i64(fqe - fqs), fmt_i64(fte - fts) >>

(***************************************************************************)
(* C8.  On structurally valid input an inconsistent record gives a warning *)
(* and no row, and the run goes on: the output is the header followed by   *)
(* one row per accepted record, in input order.                            *)
(***************************************************************************)
SkippedRecordsLeaveNoRow ==
    (mpc # "start" /\ AllValid(input)) =>
        /\ mpc \in {"lines", "exit"}
        /\ stdout = <<Header>> \o RowsOf(Accepted(input))
        /\ Len(stderr) = Len(Rejected(input))

\* a rejected record followed by an accepted one
SkippedRecordWitness ==
    /\ mpc = "exit"
    /\ Len(input) = 2
    /\ AllValid(input)
    /\ Inconsistent(input[1])
    /\ ~Inconsistent(input[2])
    /\ Len(stderr) = 1
    /\ Len(stdout) = 2

(***************************************************************************)
(* C9, as claimed.  A record whose CIGAR holds no valid operation aborts   *)
(* the run and gets no row.  (Refuted: the record gets a row.)             *)
(***************************************************************************)
EmptyCigarAborts ==
    \A i \in 1..Len(input) :
        (ReachesTheWalk(input, i) /\ NoValidOperations(input[i])) =>
            /\ i = Len(input)
            /\ mpc = "panic"
            /\ Len(stdout) = 1 + Len(Accepted(SubSeq(input, 1, i - 1)))

(***************************************************************************)
(* C9, amended.  A record whose CIGAR holds no valid operation is not an   *)
(* error: the walk consumes nothing, the record gets its row, with the     *)
(* aligned, not-aligned and indel counters 0 and each ignored counter the  *)
(* feature's length on that side, and the run goes on.                     *)
(***************************************************************************)
EmptyCigarGetsRow ==
    \A i \in 1..Len(input) :
        (ReachesTheWalk(input, i) /\ NoValidOperations(input[i])) =>
            LET n == 1 + Len(Accepted(SubSeq(input, 1, i)))
            IN  /\ Len(stdout) >= n
                /\ stdout[n] = EmptyWalkRow(input[i])
                /\ i = Len(input) => mpc \in {"lines", "exit"}

\* a record without operations got its row and the next record was processed
EmptyCigarWitness ==
    /\ Len(input) = 2
    /\ ReachesTheWalk(input, 2)
    /\ NoValidOperations(input[1])
    /\ ~Inconsistent(input[1])
    /\ ~NoValidOperations(input[2])
    /\ Len(stdout) = 3
    /\ stdout[2][15] = <<"2">>

====
